---- MODULE Spec2Model ----
(***************************************************************************)
(* Performance portability, p3.metrics.pp (src/p3/metrics/_pp.py).         *)
(*                                                                         *)
(* The call pp(df) is modelled as a state machine whose steps are the      *)
(* statements of the function body: the four validation checks, the        *)
(* capture of the application order, the max-deduplication, the completion *)
(* of the problem x platform x application cross-product, the harmonic     *)
(* mean aggregation and the final re-sort.                                 *)
(*                                                                         *)
(* A table is [columns |-> set of column names, rows |-> sequence of rows],*)
(* a row being a function from the table's columns to values.  Key columns *)
(* hold (non-null) strings; every other column holds a cell.               *)
(*                                                                         *)
(* Efficiencies are binary floating-point numbers.  They are modelled as   *)
(* exact rationals n/d that are representable with MantBits significant    *)
(* bits; every arithmetic result the code rounds is rounded here (to       *)
(* nearest, ties to even), with an unbounded exponent range.               *)
(*                                                                         *)
(* Input tables have at least one row and no null key label.               *)
(***************************************************************************)
EXTENDS Integers, Sequences, FiniteSets

\* ------------------------------------------------------------------ bounds

\* Largest number of rows of an input table.
MaxRows == 2

\* Significant bits of the floating-point format (53 in the program).
MantBits == 3

\* ------------------------------------------------------------- arithmetic

RECURSIVE GCD(_, _)
GCD(a, b) == IF b = 0 THEN a ELSE GCD(b, a % b)

Abs(x) == IF x < 0 THEN -x ELSE x

RECURSIVE Pow2(_)
Pow2(k) == IF k = 0 THEN 1 ELSE 2 * Pow2(k - 1)

\* The rational n/d (d > 0) in lowest terms.
Rat(n, d) ==
    LET g == GCD(Abs(n), d)
    IN  [n |-> n \div g, d |-> d \div g]

RatLess(x, y) == x.n * y.d < y.n * x.d
RatLeq(x, y) == x.n * y.d <= y.n * x.d
RatAdd(x, y) == Rat(x.n * y.d + y.n * x.d, x.d * y.d)

\* The integer nearest to n/d (n >= 0, d > 0), ties to the even one.
RoundHalfEven(n, d) ==
    LET q == n \div d
        r == n % d
    IN  IF 2 * r < d THEN q
        ELSE IF 2 * r > d THEN q + 1
        ELSE IF q % 2 = 0 THEN q ELSE q + 1

\* The float nearest to the positive rational (n/d) * (sn/sd): n/d is scaled
\* by powers of two into [2^(MantBits-1), 2^MantBits), rounded to an integer
\* there and scaled back.
RECURSIVE RoundScaled(_, _, _, _)
RoundScaled(n, d, sn, sd) ==
    IF n >= d * Pow2(MantBits) THEN RoundScaled(n, 2 * d, 2 * sn, sd)
    ELSE IF n < d * Pow2(MantBits - 1) THEN RoundScaled(2 * n, d, sn, 2 * sd)
    ELSE Rat(RoundHalfEven(n, d) * sn, sd)

\* Conversion of an exact rational >= 0 to float.
Float(x) == IF x.n = 0 THEN Rat(0, 1) ELSE RoundScaled(x.n, x.d, 1, 1)

\* Float division a / b of two floats, b # 0.
FloatDiv(a, b) == Float(Rat(a.n * b.d, a.d * b.n))

\* ------------------------------------------------------------------ values

\* A cell of a non-key column: a float, a null (None / NaN) or a string.
Num(n, d) == [kind |-> "float", v |-> Rat(n, d)]
Null == [kind |-> "null", v |-> Rat(0, 1)]
Str == [kind |-> "str", v |-> Rat(0, 1)]

IsNull(c) == c.kind = "null"

\* Column names.
KeyColumns == <<"problem", "platform", "application">>
AppEff == "app eff"
ArchEff == "arch eff"
Fom == "fom"

\* The labels of the model, in the order Python compares strings.
SortedLabels == <<"A", "B", "P1", "P2", "X", "Y">>
LabelRank(s) == CHOOSE i \in 1..Len(SortedLabels) : SortedLabels[i] = s

Range(s) == {s[i] : i \in 1..Len(s)}

EmptyTable == [columns |-> {}, rows |-> <<>>]

NoError == [type |-> "", kind |-> "", column |-> ""]

\* ----------------------------------------------------- sequences and keys

\* Lexicographic order of two tuples of labels of the same length.
RECURSIVE TupleLess(_, _)
TupleLess(a, b) ==
    IF Len(a) = 0 THEN FALSE
    ELSE IF a[1] # b[1] THEN LabelRank(a[1]) < LabelRank(b[1])
    ELSE TupleLess(Tail(a), Tail(b))

\* The tuples of S in ascending order.
RECURSIVE SortedTuples(_)
SortedTuples(S) ==
    IF S = {} THEN <<>>
    ELSE LET m == CHOOSE x \in S : \A y \in S \ {x} : TupleLess(x, y)
         IN  <<m>> \o SortedTuples(S \ {m})

\* The distinct elements of s in order of first occurrence.
RECURSIVE Unique(_)
Unique(s) ==
    IF Len(s) = 0 THEN <<>>
    ELSE LET front == Unique(SubSeq(s, 1, Len(s) - 1))
             last == s[Len(s)]
         IN  IF last \in Range(front) THEN front ELSE Append(front, last)

Column(t, c) == [i \in 1..Len(t.rows) |-> t.rows[i][c]]

KeyOf(row, key) == [i \in 1..Len(key) |-> row[key[i]]]

KeysOf(t, key) == {KeyOf(t.rows[i], key) : i \in 1..Len(t.rows)}

\* The cells of column c in the rows of t whose key is k, in row order.
GroupCells(t, key, k, c) ==
    LET Sel(r) == KeyOf(r, key) = k
        rs == SelectSeq(t.rows, Sel)
    IN  [i \in 1..Len(rs) |-> rs[i][c]]

\* -------------------------------------------------------------- validation

\* _require_columns(df, columns): the required columns df lacks.
MissingColumns(t, columns) == {c \in Range(columns) : c \notin t.columns}

\* Mutant: only "app eff" is collected.
EfficienciesAppOnly(t) == IF AppEff \in t.columns THEN <<AppEff>> ELSE <<>>

\* The efficiency columns of df, "app eff" before "arch eff".
EfficienciesOf(t) ==
    (IF AppEff \in t.columns THEN <<AppEff>> ELSE <<>>)
        \o (IF ArchEff \in t.columns THEN <<ArchEff>> ELSE <<>>)

\* _require_numeric(df, columns): the columns, in the order given, that hold
\* a value that is neither a number nor null.
NonNumericColumns(t, columns) ==
    LET Bad(c) == \E i \in 1..Len(t.rows) : t.rows[i][c].kind = "str"
    IN  SelectSeq(columns, Bad)

\* Series.fillna(value) on one cell.
FillNa(c, value) == IF IsNull(c) THEN value ELSE c

\* Mutant: the right end is excluded.
BetweenRightOpen(c, left, right) == RatLeq(left.v, c.v) /\ RatLess(c.v, right.v)

\* Series.between(left, right) on one cell, both ends included.
Between(c, left, right) == RatLeq(left.v, c.v) /\ RatLeq(c.v, right.v)

\* not df[eff].fillna(0).between(0, 1).all()
OutOfRange(t, eff) ==
    ~ \A i \in 1..Len(t.rows) :
        Between(FillNa(t.rows[i][eff], Num(0, 1)), Num(0, 1), Num(1, 1))

\* ----------------------------------------------------------- deduplication

\* The larger of two floats.
MaxOf(a, b) == IF RatLess(a.v, b.v) THEN b ELSE a

\* Mutant: agg("first"), the first non-null value of the group.
RECURSIVE AggFirst(_)
AggFirst(cells) ==
    IF Len(cells) = 0 THEN Null
    ELSE IF IsNull(cells[1]) THEN AggFirst(Tail(cells))
    ELSE cells[1]

\* agg("max") of one group's column: nulls are skipped, and the result is
\* null when the group holds nothing else.
RECURSIVE AggMax(_)
AggMax(cells) ==
    IF Len(cells) = 0 THEN Null
    ELSE LET rest == AggMax(Tail(cells))
         IN  IF IsNull(cells[1]) THEN rest
             ELSE IF IsNull(rest) THEN cells[1]
             ELSE MaxOf(cells[1], rest)

\* df[key + efficiencies].groupby(key).agg("max"), then reset_index(): one
\* row per key, the keys in ascending order.
Deduplicate(t, effs) ==
    LET ks == SortedTuples(KeysOf(t, KeyColumns))
        cols == Range(KeyColumns) \cup Range(effs)
    IN  [columns |-> cols,
         rows |-> [i \in 1..Len(ks) |->
                    [c \in cols |->
                        IF c = "problem" THEN ks[i][1]
                        ELSE IF c = "platform" THEN ks[i][2]
                        ELSE IF c = "application" THEN ks[i][3]
                        ELSE AggMax(GroupCells(t, KeyColumns, ks[i], c))]]]

\* -------------------------------------------------------------- completion

\* itertools.product of three sequences: the last one varies fastest.
Product(ps, hs, as) ==
    [i \in 1..(Len(ps) * Len(hs) * Len(as)) |->
        <<ps[((i - 1) \div (Len(hs) * Len(as))) + 1],
          hs[(((i - 1) \div Len(as)) % Len(hs)) + 1],
          as[((i - 1) % Len(as)) + 1]>>]

\* Mutant: only the (problem, application) pairs df has are completed.
DidNotRunOfPairs(t) ==
    LET unique == [i \in 1..3 |-> Unique(Column(t, KeyColumns[i]))]
        Sliced(k) == /\ k \notin KeysOf(t, KeyColumns)
                     /\ <<k[1], k[3]>> \in KeysOf(t, <<"problem", "application">>)
    IN  SelectSeq(Product(unique[1], unique[2], unique[3]), Sliced)

\* The combinations of the distinct problems, platforms and applications of
\* df that no row of df has.
DidNotRun(t) ==
    LET unique == [i \in 1..3 |-> Unique(Column(t, KeyColumns[i]))]
        Sliced(k) == k \notin KeysOf(t, KeyColumns)
    IN  SelectSeq(Product(unique[1], unique[2], unique[3]), Sliced)

\* Mutant: a "did not run" row with 0.0 for the efficiencies.
DidNotRunRowZero(k) ==
    [c \in Range(KeyColumns) \cup {Fom, ArchEff, AppEff} |->
        IF c = "problem" THEN k[1]
        ELSE IF c = "platform" THEN k[2]
        ELSE IF c = "application" THEN k[3]
        ELSE IF c = Fom THEN Null ELSE Num(0, 1)]

\* The "did not run" row of a combination.
DidNotRunRow(k) ==
    [c \in Range(KeyColumns) \cup {Fom, ArchEff, AppEff} |->
        IF c = "problem" THEN k[1]
        ELSE IF c = "platform" THEN k[2]
        ELSE IF c = "application" THEN k[3]
        ELSE Null]

\* pd.concat([df, pd.DataFrame(rows)], ignore_index=True): the columns are
\* the union of both frames' columns, a cell a frame lacks is null.
Concat(t, rows) ==
    LET extra == IF Len(rows) = 0 THEN {} ELSE DOMAIN rows[1]
        cols == t.columns \cup extra
        Widen(r) == [c \in cols |-> IF c \in DOMAIN r THEN r[c] ELSE Null]
    IN  [columns |-> cols,
         rows |-> [i \in 1..(Len(t.rows) + Len(rows)) |->
                    IF i <= Len(t.rows) THEN Widen(t.rows[i])
                    ELSE Widen(rows[i - Len(t.rows)])]]

Complete(t) ==
    LET missing == DidNotRun(t)
    IN  Concat(t, [i \in 1..Len(missing) |-> DidNotRunRow(missing[i])])

\* ------------------------------------------------------------- aggregation

RECURSIVE RatSum(_)
RatSum(xs) == IF Len(xs) = 0 THEN Rat(0, 1) ELSE RatAdd(xs[1], RatSum(Tail(xs)))

\* Mutant: zeros are left out of the mean.
harmonic_mean_nonzero(data) ==
    LET NonZero(x) == x.v.n # 0
        xs == SelectSeq(data, NonZero)
        recip == [i \in 1..Len(xs) |-> FloatDiv(Rat(1, 1), xs[i].v)]
        total == RatSum(recip)
    IN  IF Len(xs) = 0 THEN Num(0, 1)
        ELSE IF Len(xs) = 1 THEN xs[1]
        ELSE [kind |-> "float", v |-> Float(Rat(Len(xs) * total.d, total.n))]

\* Mutant: a single value takes the general path.
harmonic_mean_general(data) ==
    IF \E i \in 1..Len(data) : data[i].v.n = 0 THEN Num(0, 1)
    ELSE LET recip == [i \in 1..Len(data) |-> FloatDiv(Rat(1, 1), data[i].v)]
             total == RatSum(recip)
         IN  [kind |-> "float", v |-> Float(Rat(Len(data) * total.d, total.n))]

\* Mutant: the arithmetic mean.
arithmetic_mean(data) ==
    LET total == RatSum([i \in 1..Len(data) |-> data[i].v])
    IN  [kind |-> "float", v |-> Float(Rat(total.n, total.d * Len(data)))]

\* statistics.harmonic_mean(data) of non-negative floats: a single value is
\* returned as it is, a zero anywhere gives 0, and otherwise the reciprocals
\* (each one a float division) are summed exactly and the quotient of the
\* count by that sum is converted to float.
harmonic_mean(data) ==
    IF Len(data) = 1 THEN data[1]
    ELSE IF \E i \in 1..Len(data) : data[i].v.n = 0 THEN Num(0, 1)
    ELSE LET recip == [i \in 1..Len(data) |-> FloatDiv(Rat(1, 1), data[i].v)]
             total == RatSum(recip)
         IN  [kind |-> "float", v |-> Float(Rat(Len(data) * total.d, total.n))]

_hmean(series) == harmonic_mean(series)

\* df[efficiencies] = df[efficiencies].astype(float).fillna(0.0)
FillEfficiencies(t, effs) ==
    [columns |-> t.columns,
     rows |-> [i \in 1..Len(t.rows) |->
                [c \in t.columns |->
                    IF c \in Range(effs) THEN FillNa(t.rows[i][c], Num(0, 1))
                    ELSE t.rows[i][c]]]]

\* eff.replace("eff", "pp")
PPColumn(eff) == IF eff = AppEff THEN "app pp" ELSE "arch pp"

\* df[key + efficiencies].groupby(key).agg(_hmean), reset_index() and the
\* renaming of the efficiency columns: one row per (problem, application),
\* the keys in ascending order.
Aggregate(t, effs) ==
    LET key == <<"problem", "application">>
        ks == SortedTuples(KeysOf(t, key))
        cols == Range(key) \cup {PPColumn(e) : e \in Range(effs)}
        EffOf(c) == CHOOSE e \in Range(effs) : PPColumn(e) = c
    IN  [columns |-> cols,
         rows |-> [i \in 1..Len(ks) |->
                    [c \in cols |->
                        IF c = "problem" THEN ks[i][1]
                        ELSE IF c = "application" THEN ks[i][2]
                        ELSE _hmean(GroupCells(t, key, ks[i], EffOf(c)))]]]

\* ---------------------------------------------------------------- ordering

\* _sort_by_app_order(df, app_order): a stable sort of the rows by the
\* position of their application in app_order.
RECURSIVE _sort_by_app_order(_, _)
_sort_by_app_order(t, order) ==
    IF Len(order) = 0 THEN [columns |-> t.columns, rows |-> <<>>]
    ELSE LET IsFirst(r) == r["application"] = order[1]
             rest == _sort_by_app_order(t, Tail(order))
         IN  [columns |-> t.columns,
              rows |-> SelectSeq(t.rows, IsFirst) \o rest.rows]

\* Mutant: the applications in ascending order, as grouping leaves them.
AppOrderSorted(t) ==
    LET ts == SortedTuples({<<a>> : a \in Range(Column(t, "application"))})
    IN  [i \in 1..Len(ts) |-> ts[i][1]]

\* df["application"].unique(): the applications in order of first occurrence.
AppOrder(t) == Unique(Column(t, "application"))

\* ------------------------------------------------------------------ inputs

Problems == {"P1", "P2"}
Platforms == {"A", "B"}
Applications == {"X", "Y"}

\* Efficiencies a caller may pass: in range, and representable as floats.
ValidCells == {Null, Num(0, 1), Num(7, 16), Num(1, 2), Num(1, 1)}

\* Cells of a table that need not be valid.
AnyCells == {Null, Num(1, 1), Num(-1, 4), Num(3, 2), Str}

AllColumns == Range(KeyColumns) \cup {AppEff, ArchEff}

\* The rows with the given columns, keys and cells.
RowsOver(cols, ps, hs, as, appCells, archCells) ==
    {[c \in cols |->
        IF c = "problem" THEN p
        ELSE IF c = "platform" THEN h
        ELSE IF c = "application" THEN a
        ELSE IF c = AppEff THEN e1 ELSE e2] :
     p \in IF "problem" \in cols THEN ps ELSE {"P1"},
     h \in IF "platform" \in cols THEN hs ELSE {"A"},
     a \in IF "application" \in cols THEN as ELSE {"X"},
     e1 \in IF AppEff \in cols THEN appCells ELSE {Null},
     e2 \in IF ArchEff \in cols THEN archCells ELSE {Null}}

\* t is a table of 1..MaxRows rows drawn from R.
TableOver(t, cols, R) ==
    \E k \in 1..MaxRows : \E rs \in [1..k -> R] : t = [columns |-> cols, rows |-> rs]

\* Application efficiencies measured for any problem, platform, application.
Measurements(t) ==
    LET cols == Range(KeyColumns) \cup {AppEff}
    IN  TableOver(t, cols, RowsOver(cols, Problems, Platforms, Applications,
                                    ValidCells, {Null}))

\* Both efficiencies of the applications on the platforms, for one problem.
TwoColumn(t) ==
    TableOver(t, AllColumns, RowsOver(AllColumns, {"P1"}, Platforms, Applications,
                                      {Num(7, 16), Num(1, 1)},
                                      {Null, Num(7, 16), Num(1, 1)}))

\* Tables with any columns and any cells, for one (problem, platform,
\* application).
Malformed(t) ==
    \E cols \in SUBSET AllColumns :
        TableOver(t, cols, RowsOver(cols, {"P1"}, {"A"}, {"X"}, AnyCells, AnyCells))

Inputs(t) == Measurements(t) \/ TwoColumn(t) \/ Malformed(t)

\* ----------------------------------------------------------- state machine

VARIABLES
    input,          \* the caller's DataFrame
    df,             \* the local df
    efficiencies,   \* the local list of efficiency columns
    app_order,      \* the local app_order
    pp,             \* the local pp
    raised,         \* the exception raised, if any
    pc              \* the statement to execute next

vars == <<input, df, efficiencies, app_order, pp, raised, pc>>

Init ==
    /\ Inputs(input)
    /\ df = input
    /\ efficiencies = <<>>
    /\ app_order = <<>>
    /\ pp = EmptyTable
    /\ raised = NoError
    /\ pc = "require_columns"

ValueError(kind, column) == [type |-> "ValueError", kind |-> kind, column |-> column]
TypeError(kind, column) == [type |-> "TypeError", kind |-> kind, column |-> column]

Raise(e) ==
    /\ raised' = e
    /\ pc' = "raised"

\* _require_columns(df, ["problem", "platform", "application"])
RequireColumns ==
    /\ pc = "require_columns"
    /\ IF MissingColumns(df, KeyColumns) # {}
       THEN Raise(ValueError("MissingColumn", ""))
       ELSE pc' = "efficiencies" /\ UNCHANGED raised
    /\ UNCHANGED <<input, df, efficiencies, app_order, pp>>

\* The efficiency columns are collected; there must be one.
CollectEfficiencies ==
    /\ pc = "efficiencies"
    /\ efficiencies' = EfficienciesOf(df)
    /\ IF Len(efficiencies') = 0
       THEN Raise(ValueError("MissingEfficiencyColumn", ""))
       ELSE pc' = "require_numeric" /\ UNCHANGED raised
    /\ UNCHANGED <<input, df, app_order, pp>>

\* _require_numeric(df, efficiencies)
RequireNumeric ==
    /\ pc = "require_numeric"
    /\ LET bad == NonNumericColumns(df, efficiencies)
       IN  IF Len(bad) > 0
           THEN Raise(TypeError("NonNumericValue", bad[1]))
           ELSE pc' = "range" /\ UNCHANGED raised
    /\ UNCHANGED <<input, df, efficiencies, app_order, pp>>

\* Mutant: an out-of-range column is recorded and the call goes on.
CheckRangeAndGoOn ==
    /\ pc = "range"
    /\ LET OutOf(eff) == OutOfRange(df, eff)
           bad == SelectSeq(efficiencies, OutOf)
       IN  IF Len(bad) > 0
           THEN raised' = ValueError("OutOfRange", bad[1])
           ELSE UNCHANGED raised
    /\ pc' = "app_order"
    /\ UNCHANGED <<input, df, efficiencies, app_order, pp>>

\* for eff in efficiencies: the first column out of [0, 1] raises.
CheckRange ==
    /\ pc = "range"
    /\ LET OutOf(eff) == OutOfRange(df, eff)
           bad == SelectSeq(efficiencies, OutOf)
       IN  IF Len(bad) > 0
           THEN Raise(ValueError("OutOfRange", bad[1]))
           ELSE pc' = "app_order" /\ UNCHANGED raised
    /\ UNCHANGED <<input, df, efficiencies, app_order, pp>>

\* app_order = df["application"].unique()
CaptureAppOrder ==
    /\ pc = "app_order"
    /\ app_order' = AppOrder(df)
    /\ pc' = "dedup"
    /\ UNCHANGED <<input, df, efficiencies, pp, raised>>

\* Keep only the most efficient (application, platform) results.
Dedup ==
    /\ pc = "dedup"
    /\ df' = Deduplicate(df, efficiencies)
    /\ pc' = "complete"
    /\ UNCHANGED <<input, efficiencies, app_order, pp, raised>>

\* Add a "did not run" value for applications that did not run.
Completion ==
    /\ pc = "complete"
    /\ df' = Complete(df)
    /\ pc' = "aggregate"
    /\ UNCHANGED <<input, efficiencies, app_order, pp, raised>>

\* Calculate performance portability for both types of efficiency.
Aggregation ==
    /\ pc = "aggregate"
    /\ df' = FillEfficiencies(df, efficiencies)
    /\ pp' = Aggregate(df', efficiencies)
    /\ pc' = "sort"
    /\ UNCHANGED <<input, efficiencies, app_order, raised>>

\* Sort the final DataFrame to match the original application order, and
\* return it.
SortAndReturn ==
    /\ pc = "sort"
    /\ pp' = _sort_by_app_order(pp, app_order)
    /\ pc' = "returned"
    /\ UNCHANGED <<input, df, efficiencies, app_order, raised>>

Next ==
    \/ RequireColumns
    \/ CollectEfficiencies
    \/ RequireNumeric
    \/ CheckRange
    \/ CaptureAppOrder
    \/ Dedup
    \/ Completion
    \/ Aggregation
    \/ SortAndReturn

Spec == Init /\ [][Next]_vars

\* ------------------------------------------------- the input, as a relation

\* What the caller's table says, read off the table itself.
InputKeys == {KeyOf(input.rows[i], KeyColumns) : i \in 1..Len(input.rows)}
InputProblems == {k[1] : k \in InputKeys}
InputPlatforms == {k[2] : k \in InputKeys}
InputApplications == {k[3] : k \in InputKeys}
InputEfficiencies == {AppEff, ArchEff} \cap input.columns

\* The non-null values measured for key k in column eff.
Measured(k, eff) ==
    {input.rows[i][eff].v :
        i \in {j \in 1..Len(input.rows) :
                 /\ KeyOf(input.rows[j], KeyColumns) = k
                 /\ ~IsNull(input.rows[j][eff])}}

\* The best measurement for key k in column eff; null without a measurement.
Best(k, eff) ==
    LET M == Measured(k, eff)
    IN  IF M = {} THEN Null
        ELSE [kind |-> "float", v |-> CHOOSE m \in M : \A x \in M : RatLeq(x, m)]

\* The efficiency of application a for problem p on platform h: the best
\* measurement, and 0 when there is none.
Efficiency(p, h, a, eff) ==
    LET b == Best(<<p, h, a>>, eff)
    IN  IF IsNull(b) THEN Rat(0, 1) ELSE b.v

OutputRows == 1..Len(pp.rows)
OutputKey(i) == <<pp.rows[i]["problem"], pp.rows[i]["application"]>>

\* ------------------------------------------------------------------ claims

\* C1 (zero-dominance): in every row (p, a) of the returned table, and for
\* each efficiency column, if the efficiency of a for p (the best of its
\* measurements) is 0, null or not measured at all on some platform of the
\* input, the pp value is exactly 0.0.
ZeroDominance ==
    pc = "returned" =>
        \A i \in OutputRows : \A eff \in InputEfficiencies :
            (\E h \in InputPlatforms :
                Efficiency(OutputKey(i)[1], h, OutputKey(i)[2], eff).n = 0)
            => pp.rows[i][PPColumn(eff)] = Num(0, 1)

\* X ran P1 on A with efficiency 1.0 and never on B, which another
\* application ran on: the row (P1, X) is returned with app pp 0.0.
ZeroDominanceWitness ==
    /\ pc = "returned"
    /\ AppEff \in input.columns
    /\ Best(<<"P1", "A", "X">>, AppEff) = Num(1, 1)
    /\ "B" \in InputPlatforms
    /\ <<"P1", "B", "X">> \notin InputKeys
    /\ \E i \in OutputRows :
        /\ OutputKey(i) = <<"P1", "X">>
        /\ pp.rows[i]["app pp"] = Num(0, 1)

\* C2 as stated (completeness): the returned table has exactly one row per
\* (problem, application) pair that occurs in some input row.
Completeness ==
    pc = "returned" =>
        /\ {OutputKey(i) : i \in OutputRows} = {<<k[1], k[3]>> : k \in InputKeys}
        /\ \A i, j \in OutputRows : OutputKey(i) = OutputKey(j) => i = j

\* C2 as amended: the returned table has exactly one row per element of the
\* cross-product of the distinct problems and the distinct applications of
\* the input, whether or not the pair occurs in an input row.
CompletenessOfProduct ==
    pc = "returned" =>
        /\ {OutputKey(i) : i \in OutputRows} = InputProblems \X InputApplications
        /\ \A i, j \in OutputRows : OutputKey(i) = OutputKey(j) => i = j

\* X ran only P1 and Y only P2: four rows are returned, (P1, Y) among them.
CompletenessWitness ==
    /\ pc = "returned"
    /\ {<<k[1], k[3]>> : k \in InputKeys} = {<<"P1", "X">>, <<"P2", "Y">>}
    /\ Len(pp.rows) = 4
    /\ \E i \in OutputRows : OutputKey(i) = <<"P1", "Y">>

\* The platforms on which the input has rows for problem p, application a.
PlatformsOf(p, a) == {k[2] : k \in {x \in InputKeys : x[1] = p /\ x[3] = a}}

\* C3 as stated (single-platform identity): a (problem, application) pair
\* with input rows for exactly one platform has, as its pp value, that
\* platform's efficiency (the best of the rows of that key, a null counting
\* as 0.0).
SinglePlatformIdentity ==
    pc = "returned" =>
        \A i \in OutputRows : \A eff \in InputEfficiencies :
            LET p == OutputKey(i)[1]
                a == OutputKey(i)[2]
            IN  Cardinality(PlatformsOf(p, a)) = 1 =>
                    \A h \in PlatformsOf(p, a) :
                        pp.rows[i][PPColumn(eff)].v = Efficiency(p, h, a, eff)

\* C3 as amended: when the whole input has exactly one distinct platform,
\* the pp value of every (problem, application) pair with input rows is that
\* platform's efficiency, exactly.
SinglePlatformInputIdentity ==
    pc = "returned" /\ Cardinality(InputPlatforms) = 1 =>
        \A i \in OutputRows : \A eff \in InputEfficiencies :
            LET p == OutputKey(i)[1]
                a == OutputKey(i)[2]
            IN  \A h \in PlatformsOf(p, a) :
                    pp.rows[i][PPColumn(eff)].v = Efficiency(p, h, a, eff)

\* Two measurements of one key on the only platform, the better one 7/16
\* (whose reciprocal is not a float): 7/16 is returned.
SinglePlatformWitness ==
    /\ pc = "returned"
    /\ InputEfficiencies = {AppEff}
    /\ Cardinality(InputPlatforms) = 1
    /\ Len(input.rows) = 2
    /\ Cardinality(InputKeys) = 1
    /\ input.rows[1][AppEff] # input.rows[2][AppEff]
    /\ pp.rows[1]["app pp"] = Num(7, 16)

\* The first input row of application a.
FirstOccurrence(a) ==
    CHOOSE i \in 1..Len(input.rows) :
        /\ input.rows[i]["application"] = a
        /\ \A j \in 1..(i - 1) : input.rows[j]["application"] # a

\* C4 (order preservation): the rows of the returned table are ordered by
\* the first occurrence of their application in the input, so the rows of
\* an application are adjacent and the applications come in input order.
OrderPreservation ==
    pc = "returned" =>
        \A i, j \in OutputRows :
            i < j => FirstOccurrence(pp.rows[i]["application"])
                        <= FirstOccurrence(pp.rows[j]["application"])

\* Y occurs before X in the input, against the order grouping sorts them
\* in, with two problems each: Y's two rows are returned before X's two.
OrderPreservationWitness ==
    /\ pc = "returned"
    /\ Len(input.rows) = 2
    /\ input.rows[1]["application"] = "Y"
    /\ input.rows[1]["problem"] = "P2"
    /\ input.rows[2]["application"] = "X"
    /\ Column(pp, "application") = <<"Y", "Y", "X", "X">>

\* Column eff of the input holds a value that is neither a number nor null.
NonNumericIn(eff) == \E i \in 1..Len(input.rows) : input.rows[i][eff].kind = "str"

\* Column eff of the input holds a number below 0 or above 1.
OutOfRangeIn(eff) ==
    \E i \in 1..Len(input.rows) :
        /\ input.rows[i][eff].kind = "float"
        /\ \/ input.rows[i][eff].v.n < 0
           \/ input.rows[i][eff].v.n > input.rows[i][eff].v.d

\* The first rule the input violates, in the order missing key column,
\* missing efficiency column, non-numeric value, out-of-range value.
FirstViolated ==
    IF \E c \in Range(KeyColumns) : c \notin input.columns THEN "MissingColumn"
    ELSE IF InputEfficiencies = {} THEN "MissingEfficiencyColumn"
    ELSE IF \E eff \in InputEfficiencies : NonNumericIn(eff) THEN "NonNumericValue"
    ELSE IF \E eff \in InputEfficiencies : OutOfRangeIn(eff) THEN "OutOfRange"
    ELSE ""

Validating == {"require_columns", "efficiencies", "require_numeric", "range"}
Computing == {"app_order", "dedup", "complete", "aggregate", "sort"}

\* C5 (error precedence): the error raised is that of the first violated
\* rule, and no input that violates a rule gets past validation.
ErrorPrecedence ==
    /\ pc = "raised" => raised.kind = FirstViolated
    /\ pc \in Computing \cup {"returned"} => FirstViolated = ""

\* "app eff" holds a number out of range and "arch eff" a string: the
\* non-numeric value of "arch eff" is what is reported.
ErrorPrecedenceWitness ==
    /\ pc = "raised"
    /\ raised = TypeError("NonNumericValue", ArchEff)
    /\ AppEff \in input.columns
    /\ OutOfRangeIn(AppEff)
    /\ ~NonNumericIn(AppEff)

\* C6 (range check): for an input with the three key columns and only
\* numbers and nulls in its efficiency columns, validation ends with the
\* out-of-range error exactly when some efficiency column holds a number
\* below 0 or above 1, and the error names such a column.
RangeCheck ==
    (/\ pc \notin Validating
     /\ Range(KeyColumns) \subseteq input.columns
     /\ \A eff \in InputEfficiencies : ~NonNumericIn(eff))
    => /\ (pc = "raised" /\ raised.kind = "OutOfRange")
            <=> (\E eff \in InputEfficiencies : OutOfRangeIn(eff))
       /\ raised.kind = "OutOfRange"
            => raised.column \in InputEfficiencies /\ OutOfRangeIn(raised.column)

\* "app eff" holds a null and the boundary value 1, "arch eff" holds 3/2:
\* the error names "arch eff".
RangeCheckWitness ==
    /\ pc = "raised"
    /\ raised = ValueError("OutOfRange", ArchEff)
    /\ AppEff \in input.columns
    /\ {input.rows[i][AppEff] : i \in 1..Len(input.rows)} = {Null, Num(1, 1)}
    /\ \E i \in 1..Len(input.rows) : input.rows[i][ArchEff] = Num(3, 2)

\* The sum of f[x] over the elements x of S.
RECURSIVE SumOver(_, _)
SumOver(S, f) ==
    IF S = {} THEN Rat(0, 1)
    ELSE LET x == CHOOSE y \in S : TRUE
         IN  RatAdd(f[x], SumOver(S \ {x}, f))

\* The performance portability of application a for problem p over the
\* platforms of the input, from the efficiencies: the efficiency itself on
\* a single platform, 0 when an efficiency is 0, and otherwise the number
\* of platforms divided by the sum of the reciprocals, each reciprocal and
\* the quotient rounded to a float.
Portability(p, a, eff) ==
    LET H == InputPlatforms
        e == [h \in H |-> Efficiency(p, h, a, eff)]
        total == SumOver(H, [h \in H |-> FloatDiv(Rat(1, 1), e[h])])
    IN  IF Cardinality(H) = 1 THEN e[CHOOSE h \in H : TRUE]
        ELSE IF \E h \in H : e[h].n = 0 THEN Rat(0, 1)
        ELSE Float(Rat(Cardinality(H) * total.d, total.n))

\* C7 (max-wins deduplication): the deduplicated table has the key columns
\* and the efficiency columns of the input and exactly one row per key of
\* the input, each efficiency being the best non-null measurement of that
\* key in that column, null without one; and the returned pp values are
\* those of the best measurements.
MaxWins ==
    /\ pc = "complete" =>
        /\ df.columns = Range(KeyColumns) \cup InputEfficiencies
        /\ KeysOf(df, KeyColumns) = InputKeys
        /\ Len(df.rows) = Cardinality(InputKeys)
        /\ \A i \in 1..Len(df.rows) : \A eff \in InputEfficiencies :
            df.rows[i][eff] = Best(KeyOf(df.rows[i], KeyColumns), eff)
    /\ pc = "returned" =>
        \A i \in OutputRows : \A eff \in InputEfficiencies :
            pp.rows[i][PPColumn(eff)].v = Portability(OutputKey(i)[1], OutputKey(i)[2], eff)

\* Two rows of one key, the first better in "arch eff" and the second in
\* "app eff": the deduplicated row has the better value of each column.
MaxWinsWitness ==
    /\ pc = "complete"
    /\ Len(input.rows) = 2
    /\ InputEfficiencies = {AppEff, ArchEff}
    /\ input.rows[1][AppEff] = Num(7, 16) /\ input.rows[1][ArchEff] = Num(1, 1)
    /\ input.rows[2][AppEff] = Num(1, 1) /\ input.rows[2][ArchEff] = Num(7, 16)
    /\ Len(df.rows) = 1
    /\ df.rows[1][AppEff] = Num(1, 1) /\ df.rows[1][ArchEff] = Num(1, 1)

\* The efficiencies e, by platform, are positive on every platform.
Supported(e) == \A h \in DOMAIN e : e[h].n > 0

\* The efficiencies of application a for problem p, by platform of the input.
Efficiencies(p, a, eff) == [h \in InputPlatforms |-> Efficiency(p, h, a, eff)]

\* The exact harmonic mean |H| / sum of 1/e over the platforms H of the input.
ExactHarmonicMean(e) ==
    LET H == DOMAIN e
        total == SumOver(H, [h \in H |-> Rat(e[h].d, e[h].n)])
    IN  Rat(Cardinality(H) * total.d, total.n)

RowOf(t, k) == t.rows[CHOOSE i \in 1..Len(t.rows) : KeyOf(t.rows[i], KeyColumns) = k]

\* C9 (dense completion): the completion step turns the deduplicated table
\* into one with exactly one row per element of the cross-product of its
\* distinct problems, platforms and applications; a row whose key the
\* deduplicated table had keeps its efficiencies, every other row has null
\* in every efficiency column; and the aggregation step turns the nulls of
\* the efficiency columns into 0.0.
DenseCompletion ==
    /\ [][pc = "complete" =>
            LET P == Range(Column(df, "problem"))
                H == Range(Column(df, "platform"))
                A == Range(Column(df, "application"))
            IN  /\ KeysOf(df', KeyColumns) = P \X H \X A
                /\ Len(df'.rows) = Cardinality(P) * Cardinality(H) * Cardinality(A)
                /\ \A i \in 1..Len(df'.rows) :
                    LET k == KeyOf(df'.rows[i], KeyColumns)
                    IN  IF k \in KeysOf(df, KeyColumns)
                        THEN \A eff \in Range(efficiencies) :
                                df'.rows[i][eff] = RowOf(df, k)[eff]
                        ELSE \A eff \in {AppEff, ArchEff} : df'.rows[i][eff] = Null]_vars
    /\ [][pc = "aggregate" =>
            /\ Len(df'.rows) = Len(df.rows)
            /\ \A i \in 1..Len(df.rows) : \A eff \in Range(efficiencies) :
                df'.rows[i][eff] = IF IsNull(df.rows[i][eff]) THEN Num(0, 1)
                                   ELSE df.rows[i][eff]]_vars

\* X ran P1 on A and Y ran P2 on B: the completed table has the eight
\* combinations, six of them rows with null efficiencies.
DenseCompletionWitness ==
    /\ pc = "aggregate"
    /\ InputKeys = {<<"P1", "A", "X">>, <<"P2", "B", "Y">>}
    /\ Len(df.rows) = 8
    /\ Cardinality({i \in 1..Len(df.rows) : IsNull(df.rows[i][AppEff])}) >= 6
    /\ \E i \in 1..Len(df.rows) : ~IsNull(df.rows[i][AppEff])

\* C10 (abort on validation failure): a stage after validation is entered
\* only by an input that passes the four checks and with nothing raised; a
\* failed call has produced no table, captured no order and left df the
\* caller's table; it takes no further step; and no step changes the
\* caller's table.
AbortOnFailure ==
    /\ [](pc \in Computing \cup {"returned"} => raised = NoError /\ FirstViolated = "")
    /\ [](raised # NoError => pc = "raised")
    /\ [](pc = "raised" =>
            /\ raised # NoError
            /\ pp = EmptyTable
            /\ app_order = <<>>
            /\ df = input)
    /\ [][pc # "raised"]_vars
    /\ [][input' = input]_vars

\* A two-row table whose second row is out of range: the call has raised
\* and nothing was computed.
AbortOnFailureWitness ==
    /\ pc = "raised"
    /\ raised.kind = "OutOfRange"
    /\ Len(input.rows) = 2
    /\ input.rows[1][raised.column] = Num(1, 1)
    /\ pp = EmptyTable
    /\ df = input

====
